---- MODULE Spec2Model ----
(***************************************************************************)
(* Session client of the task manager front end: the axios instance API    *)
(* with its request interceptor (token attachment) and its response        *)
(* interceptor (refresh on 401, one replay, forced logout), together with  *)
(* the components that share its localStorage keys: App (handleLogout, the *)
(* mount check), LoginForm (handleLogin, handleRegister) and the task      *)
(* view: TaskList with its TaskForm and TaskItems, whose handlers make     *)
(* their requests through API.                                             *)
(*                                                                         *)
(* JavaScript runs each handler to its next await without interleaving,    *)
(* so one action is one such run: from the arrival of a response (or of a  *)
(* user event) to the point where the handler awaits or returns.           *)
(***************************************************************************)
EXTENDS Integers, FiniteSets, Sequences, TLC

\* Number of originating task calls made through API.
NumCalls == 2

Calls == 1..NumCalls

\* The request of authAPI.login, which goes through API like the task calls.
LoginCall == 0

AllCalls == Calls \cup {LoginCall}

\* No call: the mounted TaskList awaits nothing.
NoCall == LoginCall - 1

\* localStorage.getItem of a key that is not stored gives null.
None == "null"

\* What the auth service can hand out.
AccessTokens == {"A1", "A2"}
RefreshTokens == {"R1", "R2"}

\* timeout: 10000 of axios.create; the requests of API are aborted after it.
timeout == 10000

\* registerData.password.length < 6
MinPasswordLength == 6

\* TaskForm: the limits handleSubmit tests and the maxLength of the inputs.
TitleLimit == 200
DescriptionLimit == 1000
TitleMaxLength == 200
DescriptionMaxLength == 1000

\* The ids the task store hands out.
MaxTasks == 4
TaskIds == 1..MaxTasks

VARIABLES
    access,           \* localStorage['access']
    refresh,          \* localStorage['refresh']
    href,             \* window.location.href: "/" while a navigation to '/'
                      \* is under way, "app" otherwise
    isAuthenticated,  \* App state
    loginPc,          \* handleLogin: "idle" or "pending" (awaiting /token/)
    calls,            \* per call through API: config, position and history
    error,            \* LoginForm state: error
    activeTab,        \* LoginForm state: activeTab
    loginData,        \* LoginForm state: formData
    registerData,     \* LoginForm state: registerData
    userEdited,       \* the inputs of the form LoginForm shows whose value
                      \* was last changed by the user, not by a render
    reported,         \* what the browser reported when a submit button was
                      \* last pressed, until the user does something else
    regPc,            \* handleRegister: "idle" or "pending"
    alert,            \* the last message shown with window.alert
    tasks,            \* TaskList state: tasks
    listPc,           \* TaskList: unmounted, mounted, loading, ready
    fetching,         \* the call fetchTasks of the mounted TaskList awaits
    editingTask,      \* TaskList state: editingTask
    listError,        \* TaskList state: error
    formData,         \* TaskForm state: formData
    formError,        \* TaskForm state: error
    pending           \* the requests the handlers of TaskList await, each
                      \* with the call it went out as

vars == <<access, refresh, href, isAuthenticated, loginPc, calls,
          error, activeTab, loginData, registerData, userEdited, reported,
          regPc, alert, tasks, listPc, fetching, editingTask, listError,
          formData, formError, pending>>

loginFormVars ==
    <<error, activeTab, loginData, registerData, userEdited, regPc, alert>>
formVars == <<loginFormVars, reported>>
listVars == <<tasks, listPc, fetching>>
taskVars == <<editingTask, listError, formData, formError, pending>>

(***************************************************************************)
(* Values                                                                  *)
(***************************************************************************)

\* `Bearer ${access}`
Bearer(tok) == <<"Bearer", tok>>

\* config.headers without an Authorization entry
NoHeader == <<>>

\* JavaScript truthiness of a stored string: null and "" are falsy.
Truthy(v) == v \notin {None, ""}

\* A response or an error as the interceptor sees it.  req names the request
\* it belongs to (error.config): "api" for the request made through API,
\* "refresh" for the bare axios.post to /token/refresh/, "none" for an Error
\* thrown locally.  status 0 stands for error.response being undefined.
NoResp == [req |-> "none", status |-> 0, code |-> ""]
ApiOk == [req |-> "api", status |-> 200, code |-> "OK"]
ApiErrors ==
    { [req |-> "api", status |-> 401, code |-> "ERR_BAD_REQUEST"],
      [req |-> "api", status |-> 404, code |-> "ERR_BAD_REQUEST"],
      [req |-> "api", status |-> 0, code |-> "ERR_NETWORK"] }
ApiTimeout == [req |-> "api", status |-> 0, code |-> "ECONNABORTED"]
RefreshOk == [req |-> "refresh", status |-> 200, code |-> "OK"]
RefreshErrors ==
    { [req |-> "refresh", status |-> 401, code |-> "ERR_BAD_REQUEST"],
      [req |-> "refresh", status |-> 0, code |-> "ERR_NETWORK"] }
NoRefreshToken == [req |-> "none", status |-> 0, code |-> "No refresh token available"]

\* The promise the caller of API.get/post/put/delete holds.
Pending == [kind |-> "pending", error |-> NoResp]
Resolved == [kind |-> "resolved", error |-> NoResp]
Rejected(e) == [kind |-> "rejected", error |-> e]

InitCall ==
    [ pc |-> "idle",             \* idle, sent, refreshing, replayed, done
      retry |-> FALSE,           \* originalRequest._retry
      Authorization |-> NoHeader,\* config.headers.Authorization
      refreshSent |-> None,      \* body { refresh } of the refresh call
      refreshed |-> None,        \* res.data.access of the refresh call
      nDispatch |-> 0,           \* requests sent through API for this call
      nRefresh |-> 0,            \* refresh calls issued for this call
      firstResp |-> NoResp,      \* answer to the first dispatch
      refreshResp |-> NoResp,    \* answer to the refresh call
      replayResp |-> NoResp,     \* answer to the replay
      result |-> Pending ]

TokenPair(a, r) ==
    [kind |-> "ok", status |-> 200, detail |-> "", access |-> a, refresh |-> r]
TokenFailures ==
    { [kind |-> "failure", status |-> 401, access |-> None, refresh |-> None,
       detail |-> "No active account found with the given credentials"],
      [kind |-> "failure", status |-> 429, access |-> None, refresh |-> None,
       detail |-> "Request was throttled."],
      [kind |-> "failure", status |-> 0, access |-> None, refresh |-> None,
       detail |-> ""] }

\* Text typed into a field is the sequence of its characters.  A character
\* is a string of length one; a character outside ASCII is written as its
\* code point, "U+00A0".
\* The white space and line terminators of ECMAScript: what
\* String.prototype.trim removes and \s matches.
WhiteSpace ==
    { " ", "\t", "\n", "\r", "\f", "U+000B", "U+00A0", "U+1680", "U+2000",
      "U+2001", "U+2002", "U+2003", "U+2004", "U+2005", "U+2006", "U+2007",
      "U+2008", "U+2009", "U+200A", "U+2028", "U+2029", "U+202F", "U+205F",
      "U+3000", "U+FEFF" }

IsSpace(ch) == ch \in WhiteSpace

RECURSIVE TrimLeft(_)
TrimLeft(s) == IF s # <<>> /\ IsSpace(Head(s)) THEN TrimLeft(Tail(s)) ELSE s

RECURSIVE TrimRight(_)
TrimRight(s) ==
    IF s # <<>> /\ IsSpace(s[Len(s)])
    THEN TrimRight(SubSeq(s, 1, Len(s) - 1))
    ELSE s

\* String.prototype.trim
Trim(s) == TrimRight(TrimLeft(s))

\* The characters outside the Basic Multilingual Plane that occur in a text.
Astral == { "U+1F600" }

\* String.prototype.length, which is also what minLength and maxLength
\* count: UTF-16 code units, two for a character outside the Basic
\* Multilingual Plane.
Length(s) == Len(s) + Cardinality({ i \in 1..Len(s) : s[i] \in Astral })

\* !field.trim()
Blank(s) == Trim(s) = <<>>

\* useState({ username: '', email: '', password: '', password2: '' })
EmptyRegisterData ==
    [username |-> <<>>, email |-> <<>>, password |-> <<>>, password2 |-> <<>>]

\* What is typed into the registration form.  The inputs are single-line:
\* they hold no line feed and no carriage return.
FieldTexts ==
    [ username |-> { <<>>, <<"\t", " ", "U+00A0">>, <<"b", "o">>,
                       <<"b", "o", "b">> },
      email |-> { <<>>, <<"b", "o", "b">>, <<"b", "@", "x">>,
                  <<"b", "@", "x", ".", "i", "o">> },
      password |-> { <<>>, <<" ", "\t", "U+3000", " ", "U+00A0", "U+2003">>,
                     <<"a", "b", "c">>,
                     <<"a", "b", "c", "d", "e">>,
                     <<"a", "b", "c", "d", "e", "f">> },
      password2 |-> { <<>>, <<"a", "b", "c">>,
                      <<"a", "b", "c", "d", "e", "f">> } ]

\* useState({ username: '', password: '' }): formData of LoginForm
EmptyLoginData == [username |-> <<>>, password |-> <<>>]

\* What is typed into the login form.
LoginFieldTexts ==
    [ username |-> { <<" ">>, <<"b", "o">> },
      password |-> { <<"\t", "U+00A0">>, <<"s", "e", "c", "r", "e", "t">> } ]

\* The credentials of a user, typed into the login form.
Credentials ==
    [ username |-> { <<"b", "o", "b">> },
      password |-> { <<"s", "e", "c", "r", "e", "t">> } ]

(***************************************************************************)
(* The browser: constraint validation of a form before its submit event    *)
(***************************************************************************)

Letters ==
    { "a", "b", "c", "d", "e", "f", "g", "h", "i", "j", "k", "l", "m", "n",
      "o", "p", "q", "r", "s", "t", "u", "v", "w", "x", "y", "z",
      "A", "B", "C", "D", "E", "F", "G", "H", "I", "J", "K", "L", "M", "N",
      "O", "P", "Q", "R", "S", "T", "U", "V", "W", "X", "Y", "Z" }
Digits == { "0", "1", "2", "3", "4", "5", "6", "7", "8", "9" }

\* The characters of the local part of an address an e-mail input accepts.
AText ==
    Letters \cup Digits \cup
    { ".", "!", "#", "$", "%", "&", "'", "*", "+", "/", "=", "?", "^", "_",
      "U+0060", "{", "|", "}", "~", "-" }

\* The part after the '@': labels of letters, digits and hyphens, joined
\* by dots, none empty, none longer than 63, none with a hyphen at an end.
ValidDomain(d) ==
    /\ d # <<>>
    /\ \A j \in 1..Len(d) : d[j] \in Letters \cup Digits \cup {"-", "."}
    /\ d[1] \notin {"-", "."}
    /\ d[Len(d)] \notin {"-", "."}
    /\ \A j \in 1..(Len(d) - 1) :
            d[j] = "." => d[j + 1] \notin {"-", "."}
    /\ \A j \in 1..(Len(d) - 1) :
            d[j + 1] = "." => d[j] \notin {"-", "."}
    /\ \A j \in 1..(Len(d) - 63) : \E k \in j..(j + 63) : d[k] = "."

\* A valid e-mail address, as an input of type=email tests it.
ValidEmailAddress(s) ==
    \E i \in 2..Len(s) :
        /\ s[i] = "@"
        /\ \A j \in 1..(i - 1) : s[j] \in AText
        /\ ValidDomain(SubSeq(s, i + 1, Len(s)))

\* The inputs of the two forms of LoginForm, in the order of the page; each
\* is required.
LoginControls ==
    << [name |-> "username", type |-> "text", minLength |-> 0],
       [name |-> "password", type |-> "password", minLength |-> 0] >>
RegisterControls ==
    << [name |-> "username", type |-> "text", minLength |-> 3],
       [name |-> "email", type |-> "email", minLength |-> 0],
       [name |-> "password", type |-> "password", minLength |-> 6],
       [name |-> "password2", type |-> "password", minLength |-> 6] >>

\* The constraint a required input with this value fails, "" when none.
\* minLength counts only for a value the user was the last to change.
ControlViolation(control, value, edited) ==
    IF value = <<>> THEN "valueMissing"
    ELSE IF control.type = "email" /\ ~ValidEmailAddress(value)
    THEN "typeMismatch"
    ELSE IF edited /\ Length(value) < control.minLength THEN "tooShort"
    ELSE ""

NoViolation == [field |-> "", constraint |-> ""]

\* What the browser reports when the submit button is pressed: the first
\* input that fails a constraint.  The submit event, and with it the
\* handler of the form, happens only when there is none.
ConstraintViolation(controls, data, edited) ==
    LET Of(i) == ControlViolation(controls[i], data[controls[i].name],
                                  controls[i].name \in edited)
        bad == { i \in 1..Len(controls) : Of(i) # "" }
    IN IF bad = {} THEN NoViolation
       ELSE LET i == CHOOSE k \in bad : \A m \in bad : k <= m
            IN [field |-> controls[i].name, constraint |-> Of(i)]

(***************************************************************************)
(* What the repository's back end does, as far as the client relies on it  *)
(***************************************************************************)

\* The user a token was issued to.
Identity(tok) ==
    CASE tok \in {"A1", "R1"} -> "alice"
      [] tok \in {"A2", "R2"} -> "bob"
      [] tok \in {"A3", "R3"} -> "carol"
      [] OTHER -> "nobody"

\* A text of n characters outside the Basic Multilingual Plane.
Wide(n) == [i \in 1..n |-> "U+1F600"]

\* The task records of the store, each with its owner.  The store holds a
\* title of up to 200 characters and a description of up to 1000, whatever
\* the characters: the task of carol is within both limits.
StoredTasks ==
    << [id |-> 1, owner |-> "alice", title |-> <<"a">>, description |-> <<>>,
        status |-> "in_progress"],
       [id |-> 2, owner |-> "bob", title |-> <<"b">>, description |-> <<>>,
        status |-> "done"],
       [id |-> 3, owner |-> "carol",
        title |-> Wide(TitleMaxLength \div 2 + 1),
        description |-> Wide(DescriptionMaxLength \div 2 + 1),
        status |-> "todo"] >>

\* GET /tasks/: the tasks whose owner is the caller.
TasksOf(user, store) == SelectSeq(store, LAMBDA t : t.owner = user)

\* The user a request with the header h is made for.
Caller(h) == IF h = NoHeader THEN "nobody" ELSE Identity(h[2])

\* The body of a successful answer to the list request that went out with
\* the header h.
ListAnswer(h) == TasksOf(Caller(h), StoredTasks)

(***************************************************************************)
(* TaskList and TaskForm: values                                           *)
(***************************************************************************)

\* editingTask when no task is edited.
NoTask == [id |-> 0]

\* useState({ title: '', description: '', status: 'todo' }) for initialData {}
EmptyTaskForm == [title |-> <<>>, description |-> <<>>, status |-> "todo"]

\* What handleChange puts into a field: one text for each input and one of
\* the values of the select other than the initial 'todo'.
TaskFieldTexts ==
    [ title |-> { <<"a", "b">> },
      description |-> { <<"c">> },
      status |-> { "done" } ]

\* The formData TaskForm takes from initialData: useState and the effect on
\* [initialData].
InitialForm(initialData) ==
    IF initialData = NoTask
    THEN EmptyTaskForm
    ELSE [title |-> initialData.title,
          description |-> initialData.description,
          status |-> initialData.status]

\* TaskList has rendered anew when rerender is true and hands TaskForm
\* initialData={editingTask || {}}: the effect on [initialData] runs when the
\* object differs from the one before, which {} always does.
TaskFormEffect(rerender, before, after) ==
    IF rerender /\ (after = NoTask \/ after # before)
    THEN /\ formData' = InitialForm(after)
         /\ formError' = ""
    ELSE UNCHANGED <<formData, formError>>

\* The task view is mounted, or unmounted: TaskList and TaskForm hold their
\* initial state and the requests of the old view have no one to report to.
TaskViewReset ==
    /\ editingTask' = NoTask
    /\ listError' = None
    /\ formData' = EmptyTaskForm
    /\ formError' = ""
    /\ pending' = {}


Init ==
    /\ access = None
    /\ refresh = None
    /\ href = "app"
    /\ isAuthenticated = FALSE
    /\ loginPc = "idle"
    /\ calls = [c \in AllCalls |-> InitCall]
    /\ error = ""
    /\ activeTab = "login"
    /\ loginData = EmptyLoginData
    /\ registerData = EmptyRegisterData
    /\ userEdited = {}
    /\ reported = NoViolation
    /\ regPc = "idle"
    /\ alert = ""
    /\ tasks = <<>>
    /\ listPc = "unmounted"
    /\ fetching = NoCall
    /\ editingTask = NoTask
    /\ listError = None
    /\ formData = EmptyTaskForm
    /\ formError = ""
    /\ pending = {}

(***************************************************************************)
(* Request interceptor                                                     *)
(***************************************************************************)

\* A request interceptor that attaches nothing.
RequestInterceptorSkips(config, acc) == config

\* API.interceptors.request.use: the header is overwritten when the stored
\* access token is truthy and left as it is otherwise.
RequestInterceptor(config, acc) ==
    IF Truthy(acc)
    THEN [config EXCEPT !.Authorization = Bearer(acc)]
    ELSE config

\* The calls of a page are numbered as they are made: c is the first call
\* record that stands for no call yet.
Unused(c) ==
    /\ calls[c].pc = "idle"
    /\ \A b \in Calls : b < c => calls[b].pc # "idle"

\* A request leaves through API: interceptor, then the wire.
Send(config, acc, pos) ==
    [RequestInterceptor(config, acc) EXCEPT
        !.pc = pos, !.nDispatch = @ + 1]

\* API.post of authAPI.login: a fresh config goes out.
Dispatch(c) ==
    /\ Unused(c)
    /\ calls' = [calls EXCEPT ![c] = Send(calls[c], access, "sent")]
    /\ UNCHANGED <<access, refresh, href, isAuthenticated, loginPc>>
    /\ UNCHANGED <<formVars, listVars, taskVars>>

(***************************************************************************)
(* TaskForm: handleChange and handleSubmit                                 *)
(***************************************************************************)

\* TaskList is rendered, and TaskForm and the TaskItems under it.
Mounted == listPc # "unmounted"

\* handleChange: one field of the task form is typed over or selected.
FormChange(texts) ==
    /\ Mounted
    /\ \E name \in DOMAIN texts :
        \E value \in texts[name] :
            formData' = [formData EXCEPT ![name] = value]
    /\ formError' = ""
    /\ reported' = NoViolation
    /\ UNCHANGED <<access, refresh, href, isAuthenticated, loginPc, calls,
                   loginFormVars, listVars, editingTask, listError, pending>>

\* A validation that lets a blank title through.
TaskFormErrorBlankAllowed(data) ==
    IF Length(Trim(data.title)) > TitleLimit
    THEN "Title must be less than 200 characters"
    ELSE IF data.description # <<>> /\ Length(data.description) > DescriptionLimit
    THEN "Description must be less than 1000 characters"
    ELSE ""

\* The validation of handleSubmit: the message of the first check that
\* fails, '' when all pass.
TaskFormError(data) ==
    IF Blank(data.title)
    THEN "Task title is required"
    ELSE IF Length(Trim(data.title)) > TitleLimit
    THEN "Title must be less than 200 characters"
    ELSE IF data.description # <<>> /\ Length(data.description) > DescriptionLimit
    THEN "Description must be less than 1000 characters"
    ELSE ""

\* The input of the task form the browser validates: the title is required.
TaskControls == << [name |-> "title", type |-> "text", minLength |-> 0] >>

\* The requests of taskAPI, each with the call it goes out as and the
\* handler of TaskList that awaits it.
CreateRequest(c, data) ==
    [call |-> c, handler |-> "handleCreate", method |-> "POST", id |-> 0,
     body |-> data]
UpdateRequest(c, id, data) ==
    [call |-> c, handler |-> "handleUpdate", method |-> "PUT", id |-> id,
     body |-> data]
ToggleRequest(c, id, newStatus) ==
    [call |-> c, handler |-> "handleToggleStatus", method |-> "PUT",
     id |-> id, body |-> [status |-> newStatus]]
DeleteRequest(c, id) ==
    [call |-> c, handler |-> "handleDelete", method |-> "DELETE", id |-> id,
     body |-> <<>>]

\* A handler of TaskList up to its await: setError(null), and the request
\* goes out through API as call c.
Await(c, request) ==
    /\ Unused(c)
    /\ calls' = [calls EXCEPT ![c] = Send(calls[c], access, "sent")]
    /\ pending' = pending \cup {request}
    /\ listError' = None

\* The submit button of the task form is pressed.  The browser reports an
\* empty title and that is all; else the submit event runs handleSubmit.  A
\* form that fails a check gets its message; else onSubmit(formData) runs
\* handleUpdate or handleCreate up to its await, and in create mode the form
\* is emptied.
FormSubmit(c) ==
    /\ Mounted
    /\ reported' = ConstraintViolation(TaskControls, formData, {})
    /\ IF reported' # NoViolation
       THEN UNCHANGED <<formData, formError, listError, pending, calls>>
       ELSE IF TaskFormError(formData) # ""
       THEN /\ formError' = TaskFormError(formData)
            /\ UNCHANGED <<formData, listError, pending, calls>>
       ELSE IF editingTask # NoTask
       THEN /\ Await(c, UpdateRequest(c, editingTask.id, formData))
            /\ TaskFormEffect(listError # None, editingTask, editingTask)
       ELSE /\ Await(c, CreateRequest(c, formData))
            /\ formData' = EmptyTaskForm
            /\ formError' = IF listError # None THEN "" ELSE formError
    /\ UNCHANGED <<access, refresh, href, isAuthenticated, loginPc,
                   loginFormVars, listVars, editingTask>>

(***************************************************************************)
(* TaskList: the handlers of the task view                                 *)
(***************************************************************************)

\* useEffect(() => { fetchTasks(); }, []): the list request of the TaskList
\* that has just been mounted goes out as call c.
FetchTasks(c) ==
    /\ listPc = "mounted"
    /\ Unused(c)
    /\ calls' = [calls EXCEPT ![c] = Send(calls[c], access, "sent")]
    /\ listPc' = "loading"
    /\ fetching' = c
    /\ listError' = None
    /\ TaskFormEffect(listError # None, editingTask, editingTask)
    /\ UNCHANGED <<editingTask, pending>>
    /\ UNCHANGED <<access, refresh, href, isAuthenticated, loginPc,
                   formVars, tasks>>

\* onEdit of the i-th TaskItem: setEditingTask(task).  A task equal to the
\* one edited is the same object (nothing happens) or another one the
\* server has sent since (the form is filled anew).
EditStart(i) ==
    /\ Mounted
    /\ i \in 1..Len(tasks)
    /\ editingTask' = tasks[i]
    /\ \E sameObject \in BOOLEAN :
        /\ sameObject => tasks[i] = editingTask
        /\ TaskFormEffect(~sameObject, NoTask, tasks[i])
    /\ reported' = NoViolation
    /\ UNCHANGED <<access, refresh, href, isAuthenticated, loginPc, calls,
                   loginFormVars, listVars, listError, pending>>

\* onCancel of TaskForm, the Cancel button of edit mode: setEditingTask(null)
EditCancel ==
    /\ Mounted
    /\ editingTask # NoTask
    /\ editingTask' = NoTask
    /\ TaskFormEffect(TRUE, editingTask, NoTask)
    /\ reported' = NoViolation
    /\ UNCHANGED <<access, refresh, href, isAuthenticated, loginPc, calls,
                   loginFormVars, listVars, listError, pending>>

\* handleToggleStatus up to its await.
ToggleStatus(i, c) ==
    /\ Mounted
    /\ i \in 1..Len(tasks)
    /\ LET task == tasks[i]
           newStatus == IF task.status = "done" THEN "todo" ELSE "done"
       IN Await(c, ToggleRequest(c, task.id, newStatus))
    /\ TaskFormEffect(listError # None, editingTask, editingTask)
    /\ reported' = NoViolation
    /\ UNCHANGED <<access, refresh, href, isAuthenticated, loginPc,
                   loginFormVars, listVars, editingTask>>

\* handleDelete up to its await: nothing happens unless the user confirms.
Delete(i, c) ==
    /\ Mounted
    /\ i \in 1..Len(tasks)
    /\ \E confirmed \in BOOLEAN :
        IF confirmed
        THEN /\ Await(c, DeleteRequest(c, tasks[i].id))
             /\ TaskFormEffect(listError # None, editingTask, editingTask)
        ELSE UNCHANGED <<listError, pending, formData, formError, calls>>
    /\ reported' = NoViolation
    /\ UNCHANGED <<access, refresh, href, isAuthenticated, loginPc,
                   loginFormVars, listVars, editingTask>>

(***************************************************************************)
(* TaskList: what its handlers do once their request has settled           *)
(***************************************************************************)

\* The rest of fetchTasks: setTasks(data) on success, setTasks([]) in the
\* catch block, and setLoading(false).
FetchSettles(ok, data) ==
    /\ tasks' = IF ok THEN data ELSE <<>>
    /\ listError' =
            IF ok THEN listError
            ELSE "Failed to load tasks. Please try again."
    /\ listPc' = "ready"
    /\ fetching' = NoCall
    /\ TaskFormEffect(TRUE, editingTask, editingTask)
    /\ UNCHANGED <<editingTask, pending>>

\* The ids of the tasks of a list.
IdsOf(list) == { list[i].id : i \in 1..Len(list) }

\* The ids the store has given to no task the client knows of.
FreshIds ==
    TaskIds \ (IdsOf(StoredTasks) \cup IdsOf(tasks) \cup {editingTask.id}
                  \cup { q.id : q \in pending })

\* The task the store answers a create request with.
Created(id, data, user) ==
    [id |-> id, owner |-> user, title |-> data.title,
     description |-> data.description, status |-> data.status]

\* The task the store answers a replace request with.
Replaced(task, data) ==
    [f \in DOMAIN task |-> IF f \in DOMAIN data THEN data[f] ELSE task[f]]

\* The answer to the replace request r, for the task as the list shows it.
Answer(r) ==
    LET known == { i \in 1..Len(tasks) : tasks[i].id = r.id }
    IN IF known = {} THEN [id |-> r.id]
       ELSE Replaced(tasks[CHOOSE i \in known : TRUE], r.body)

\* prev.map((task) => (task.id === updatedTask.id ? updatedTask : task))
MapUpdated(prev, updatedTask) ==
    [i \in 1..Len(prev) |->
        IF prev[i].id = updatedTask.id THEN updatedTask ELSE prev[i]]

\* taskAPI.create has resolved: setTasks((prev) => [newTask, ...prev])
CreateResolves(r) ==
    /\ \E id \in FreshIds :
        tasks' = <<Created(id, r.body, Caller(calls[r.call].Authorization))>>
                    \o tasks
    /\ pending' = pending \ {r}
    /\ TaskFormEffect(TRUE, editingTask, editingTask)
    /\ UNCHANGED <<listPc, fetching, editingTask, listError>>

\* taskAPI.update has resolved for handleUpdate: the task is replaced in the
\* list and setEditingTask(null).
UpdateResolves(r) ==
    /\ tasks' = MapUpdated(tasks, Answer(r))
    /\ editingTask' = NoTask
    /\ pending' = pending \ {r}
    /\ TaskFormEffect(TRUE, editingTask, NoTask)
    /\ UNCHANGED <<listPc, fetching, listError>>

\* taskAPI.update has resolved for handleToggleStatus.
ToggleResolves(r) ==
    /\ tasks' = MapUpdated(tasks, Answer(r))
    /\ pending' = pending \ {r}
    /\ TaskFormEffect(TRUE, editingTask, editingTask)
    /\ UNCHANGED <<listPc, fetching, editingTask, listError>>

\* taskAPI.delete has resolved:
\* setTasks((prev) => prev.filter((task) => task.id !== id))
DeleteResolves(r) ==
    /\ tasks' = SelectSeq(tasks, LAMBDA task : task.id # r.id)
    /\ pending' = pending \ {r}
    /\ TaskFormEffect(TRUE, editingTask, editingTask)
    /\ UNCHANGED <<listPc, fetching, editingTask, listError>>

\* The request r has resolved: the rest of the try block of its handler.
RequestResolves(r) ==
    CASE r.handler = "handleCreate" -> CreateResolves(r)
      [] r.handler = "handleUpdate" -> UpdateResolves(r)
      [] r.handler = "handleDelete" -> DeleteResolves(r)
      [] OTHER -> ToggleResolves(r)

\* The message the catch block of a handler sets.
HandlerError(handler) ==
    CASE handler = "handleCreate" -> "Failed to create task. Please try again."
      [] handler = "handleUpdate" -> "Failed to update task. Please try again."
      [] handler = "handleDelete" -> "Failed to delete task. Please try again."
      [] OTHER -> "Failed to update task status. Please try again."

\* The request r has been rejected: the catch block of its handler.
RequestRejects(r) ==
    /\ listError' = HandlerError(r.handler)
    /\ pending' = pending \ {r}
    /\ TaskFormEffect(listError' # listError, editingTask, editingTask)
    /\ UNCHANGED <<listVars, editingTask>>

\* The promise of call c settles, resolved with data when ok: the handler
\* that awaits it runs on.  A call no mounted TaskList awaits changes
\* nothing.
Settles(c, ok, data) ==
    IF fetching = c
    THEN FetchSettles(ok, data)
    ELSE IF \E r \in pending : r.call = c
    THEN \E r \in pending :
            /\ r.call = c
            /\ IF ok THEN RequestResolves(r) ELSE RequestRejects(r)
    ELSE UNCHANGED <<listVars, taskVars>>

(***************************************************************************)
(* Response interceptor                                                    *)
(***************************************************************************)

\* A retry flag that is never found set.
RetryFlagNeverSet(c) == FALSE

\* A retry flag kept once for the whole client instead of on the request.
RetryFlagShared(c) == \E d \in Calls : calls[d].retry

\* originalRequest._retry, read off the config of the failed request
RetryFlag(c) == calls[c].retry

\* An interceptor that passes every error on.
NeedsRefreshNever(c, error_) == FALSE

\* An interceptor that refreshes on any failed first attempt.
NeedsRefreshOnAnyError(c, error_) == ~RetryFlag(c)

\* error.response?.status === 401 && !originalRequest._retry
NeedsRefresh(c, error_) == error_.status = 401 /\ ~RetryFlag(c)

\* A guard that lets the refresh call go out without a token.
HasRefreshTokenUnchecked(r) == TRUE

\* if (!refresh) throw new Error('No refresh token available')
HasRefreshToken(r) == Truthy(r)

\* A catch block that rejects with the error of the request that got the 401.
CatchErrorOriginal(refreshError, originalError) == originalError

\* return Promise.reject(refreshError)
CatchError(refreshError, originalError) == refreshError

\* A catch block that removes the access token only.
ForcedLogoutKeepsRefresh(c, refreshError, originalError, resp) ==
    /\ access' = None
    /\ href' = "/"
    /\ calls' = [calls EXCEPT ![c] =
            [resp EXCEPT !.pc = "done", !.retry = TRUE,
                !.result = Rejected(CatchError(refreshError, originalError))]]
    /\ Settles(c, FALSE, <<>>)
    /\ UNCHANGED <<refresh, isAuthenticated, loginPc, formVars>>

\* catch (refreshError): localStorage.clear(); window.location.href = '/';
\* return Promise.reject(refreshError)
ForcedLogout(c, refreshError, originalError, resp) ==
    /\ access' = None
    /\ refresh' = None
    /\ href' = "/"
    /\ calls' = [calls EXCEPT ![c] =
            [resp EXCEPT !.pc = "done", !.retry = TRUE,
                !.result = Rejected(CatchError(refreshError, originalError))]]
    /\ Settles(c, FALSE, <<>>)
    /\ UNCHANGED <<isAuthenticated, loginPc, formVars>>

\* The rejected handler of API.interceptors.response.use, run on error for
\* the request of call c; rec is the call's record with the answer noted.
OnRejected(c, error_, rec) ==
    IF NeedsRefresh(c, error_)
    THEN IF ~HasRefreshToken(refresh)
         THEN ForcedLogout(c, NoRefreshToken, error_, rec)
         ELSE /\ calls' = [calls EXCEPT ![c] =
                    [rec EXCEPT !.pc = "refreshing", !.retry = TRUE,
                        !.refreshSent = refresh, !.nRefresh = @ + 1]]
              /\ UNCHANGED <<access, refresh, href, isAuthenticated, loginPc,
                              formVars, listVars, taskVars>>
    ELSE /\ calls' = [calls EXCEPT ![c] =
                [rec EXCEPT !.pc = "done", !.result = Rejected(error_)]]
         /\ Settles(c, FALSE, <<>>)
         /\ UNCHANGED <<access, refresh, href, isAuthenticated, loginPc,
                         formVars>>

\* The answer is noted as the first answer or as the replay's answer.
Noted(c, r) ==
    IF calls[c].pc = "sent"
    THEN [calls[c] EXCEPT !.firstResp = r]
    ELSE [calls[c] EXCEPT !.replayResp = r]

\* res => res
RespondOk(c) ==
    /\ calls[c].pc \in {"sent", "replayed"}
    /\ calls' = [calls EXCEPT ![c] =
            [Noted(c, ApiOk) EXCEPT !.pc = "done", !.result = Resolved]]
    /\ Settles(c, TRUE, ListAnswer(calls[c].Authorization))
    /\ UNCHANGED <<access, refresh, href, isAuthenticated, loginPc>>
    /\ UNCHANGED formVars

\* The server answers with an error status, or the network fails.
RespondError(c) ==
    /\ calls[c].pc \in {"sent", "replayed"}
    /\ \E e \in ApiErrors : OnRejected(c, e, Noted(c, e))

\* Only requests made through API carry timeout; the refresh call is made
\* with the bare axios and a config without one.
HasTimeout(pos) == pos \in {"sent", "replayed"} /\ timeout > 0

Timeout(c) ==
    /\ HasTimeout(calls[c].pc)
    /\ OnRejected(c, ApiTimeout, Noted(c, ApiTimeout))

\* A success branch that forgets to store the new token.
StoredAccessStale(newAccess, oldAccess) == oldAccess

\* localStorage.setItem('access', res.data.access)
StoredAccess(newAccess, oldAccess) == newAccess

\* originalRequest.headers.Authorization = `Bearer ${res.data.access}`
ReplayHeader(newAccess, oldHeader) == Bearer(newAccess)

\* The refresh call of c is answered with the access token a: store, set the
\* header, return API(originalRequest).
RefreshSucceedsWith(c, a) ==
    /\ calls[c].pc = "refreshing"
    /\ access' = StoredAccess(a, access)
    /\ calls' = [calls EXCEPT ![c] =
            Send([calls[c] EXCEPT
                    !.refreshResp = RefreshOk,
                    !.refreshed = a,
                    !.Authorization = ReplayHeader(a, @)],
                 access', "replayed")]
    /\ UNCHANGED <<refresh, href, isAuthenticated, loginPc>>
    /\ UNCHANGED <<formVars, listVars, taskVars>>

\* The refresh call succeeds.
RefreshSucceeds(c) == \E a \in AccessTokens : RefreshSucceedsWith(c, a)

\* The refresh call fails: the catch block.
RefreshFails(c) ==
    /\ calls[c].pc = "refreshing"
    /\ \E e \in RefreshErrors :
        ForcedLogout(c, e, calls[c].firstResp, [calls[c] EXCEPT !.refreshResp = e])

(***************************************************************************)
(* LoginForm: handleLogin                                                  *)
(***************************************************************************)

\* handleLoginChange: one field of the login form is typed over.  The
\* inputs are disabled while loading.
LoginChange(texts) ==
    /\ ~isAuthenticated
    /\ activeTab = "login"
    /\ loginPc = "idle"
    /\ regPc = "idle"
    /\ \E name \in DOMAIN texts :
        \E value \in texts[name] :
            /\ loginData' = [loginData EXCEPT ![name] = value]
            /\ userEdited' = userEdited \cup {name}
    /\ reported' = NoViolation
    /\ UNCHANGED <<access, refresh, href, isAuthenticated, loginPc, calls,
                   error, activeTab, registerData, regPc, alert, listVars,
                   taskVars>>

\* The submit button of the login form is pressed.  The browser reports the
\* first input that fails a constraint and that is all; else the submit
\* event runs handleLogin up to the await of axios.post('/token/'): the
\* early return on a blank field, else setLoading(true), setError('') and
\* the request.  The button is disabled while loading.
LoginSubmit ==
    /\ ~isAuthenticated
    /\ activeTab = "login"
    /\ loginPc = "idle"
    /\ regPc = "idle"
    /\ reported' = ConstraintViolation(LoginControls, loginData, userEdited)
    /\ IF reported' # NoViolation
       THEN UNCHANGED <<error, loginPc>>
       ELSE IF Blank(loginData.username) \/ Blank(loginData.password)
       THEN /\ error' = "Please enter both username and password"
            /\ UNCHANGED loginPc
       ELSE /\ error' = ""
            /\ loginPc' = "pending"
    /\ UNCHANGED <<access, refresh, href, isAuthenticated, calls>>
    /\ UNCHANGED <<activeTab, loginData, registerData, userEdited, regPc,
                   alert, listVars, taskVars>>

\* A login that stores the access token only.
StoreAccessOnly(data) == [access |-> data.access, refresh |-> refresh]

\* localStorage.setItem('access', res.data.access);
\* localStorage.setItem('refresh', res.data.refresh)
StoreTokenPair(data) == [access |-> data.access, refresh |-> data.refresh]

\* The token pair data has arrived: both tokens are stored, then
\* onLoginSuccess(), which is setIsAuthenticated(true): App shows TaskList in
\* place of LoginForm.
LoginSucceedsWith(data) ==
    /\ loginPc = "pending"
    /\ access' = StoreTokenPair(data).access
    /\ refresh' = StoreTokenPair(data).refresh
    /\ isAuthenticated' = TRUE
    /\ loginPc' = "idle"
    /\ error' = ""
    /\ activeTab' = "login"
    /\ loginData' = EmptyLoginData
    /\ registerData' = EmptyRegisterData
    /\ userEdited' = {}
    /\ reported' = NoViolation
    /\ regPc' = "idle"
    /\ alert' = alert
    /\ tasks' = <<>>
    /\ listPc' = "mounted"
    /\ fetching' = NoCall
    /\ TaskViewReset
    /\ UNCHANGED <<href, calls>>

\* POST /token/ answers with any token pair.
LoginSucceeds ==
    \E a \in AccessTokens : \E r \in RefreshTokens :
        LoginSucceedsWith(TokenPair(a, r))

\* The message the catch block of handleLogin sets.
LoginErrorMessage(resp) ==
    IF resp.status = 401 THEN "Invalid username or password"
    ELSE IF resp.detail # "" THEN resp.detail
    ELSE "Login failed. Please try again."

\* The catch block of handleLogin: an error message, nothing else.
LoginFails ==
    /\ loginPc = "pending"
    /\ \E resp \in TokenFailures : error' = LoginErrorMessage(resp)
    /\ loginPc' = "idle"
    /\ UNCHANGED <<access, refresh, href, isAuthenticated, calls>>
    /\ UNCHANGED <<activeTab, loginData, registerData, userEdited, reported,
                   regPc, alert, listVars, taskVars>>

(***************************************************************************)
(* App: handleLogout and the check on mount                                *)
(***************************************************************************)

\* What handleLogout reads and writes.
Here ==
    [access |-> access, refresh |-> refresh, isAuthenticated |-> isAuthenticated]

\* A logout that removes other keys than the ones the tokens are stored
\* under, as handleLogout of TaskList does.
handleLogoutOtherKeys(s) == [s EXCEPT !.isAuthenticated = FALSE]

\* localStorage.clear(); setIsAuthenticated(false)
handleLogout(s) ==
    [s EXCEPT !.access = None, !.refresh = None, !.isAuthenticated = FALSE]

\* The view App renders.
View(s) == IF s.isAuthenticated THEN "TaskList" ELSE "LoginForm"

\* handleLogout of App, behind the Logout button of the task view: TaskList
\* is unmounted and a fresh LoginForm is shown.
Logout ==
    /\ isAuthenticated
    /\ access' = handleLogout(Here).access
    /\ refresh' = handleLogout(Here).refresh
    /\ isAuthenticated' = handleLogout(Here).isAuthenticated
    /\ tasks' = <<>>
    /\ listPc' = "unmounted"
    /\ fetching' = NoCall
    /\ TaskViewReset
    /\ reported' = NoViolation
    /\ UNCHANGED <<href, loginPc, calls, loginFormVars>>

\* The navigation to '/' completes: the page is loaded anew.  Every handler
\* of the old page is gone with its requests, and the new page has made
\* none; App starts with isAuthenticated false and its mount effect sets it
\* when localStorage['access'] is there.
Reload ==
    /\ href = "/"
    /\ href' = "app"
    /\ isAuthenticated' = Truthy(access)
    /\ loginPc' = "idle"
    /\ calls' = [c \in AllCalls |-> InitCall]
    /\ error' = ""
    /\ activeTab' = "login"
    /\ loginData' = EmptyLoginData
    /\ registerData' = EmptyRegisterData
    /\ userEdited' = {}
    /\ reported' = NoViolation
    /\ regPc' = "idle"
    /\ alert' = alert
    /\ tasks' = <<>>
    /\ listPc' = IF Truthy(access) THEN "mounted" ELSE "unmounted"
    /\ fetching' = NoCall
    /\ TaskViewReset
    /\ UNCHANGED <<access, refresh>>

(***************************************************************************)
(* LoginForm: the tabs and handleRegister                                  *)
(***************************************************************************)

\* The two forms are the two arms of one conditional, so React renders
\* the one into the nodes of the other, child by child: the first input is
\* the username of both, the second the password of the login form and the
\* email of the registration form.  The other inputs of the registration
\* form are mounted with it.
SharedInputs ==
    << [login |-> "username", register |-> "username"],
       [login |-> "password", register |-> "email"] >>

\* formData or registerData, as a record of LoginForm's state s.
FormDataOf(tab, s) == IF tab = "login" THEN s.loginData ELSE s.registerData

\* The form of tab `to` is rendered in place of the form of tab `from`.
\* React sets the value of a reused input when it differs from the value the
\* input holds; an input whose value it leaves alone is still one the user
\* was the last to change.
Rendered(from, to, edited, before, after) ==
    IF from = to THEN edited
    ELSE { SharedInputs[i][to] :
            i \in { k \in 1..Len(SharedInputs) :
                      /\ SharedInputs[k][from] \in edited
                      /\ FormDataOf(from, before)[SharedInputs[k][from]]
                            = FormDataOf(to, after)[SharedInputs[k][to]] } }

\* The state of LoginForm the render reads.
FormState == [loginData |-> loginData, registerData |-> registerData]

\* onClick of a tab button: setActiveTab(tab); setError('').
SwitchTab ==
    /\ ~isAuthenticated
    /\ \E tab \in {"login", "register"} :
        /\ activeTab' = tab
        /\ error' = ""
        /\ userEdited' =
                Rendered(activeTab, tab, userEdited, FormState, FormState)
    /\ reported' = NoViolation
    /\ UNCHANGED <<access, refresh, href, isAuthenticated, loginPc, calls,
                   loginData, registerData, regPc, alert, listVars, taskVars>>

\* handleRegisterChange: one field of the registration form is typed over.
RegisterChange ==
    /\ ~isAuthenticated
    /\ activeTab = "register"
    /\ loginPc = "idle"
    /\ regPc = "idle"
    /\ \E name \in DOMAIN FieldTexts :
        \E value \in FieldTexts[name] :
            /\ registerData' = [registerData EXCEPT ![name] = value]
            /\ userEdited' = userEdited \cup {name}
    /\ reported' = NoViolation
    /\ UNCHANGED <<access, refresh, href, isAuthenticated, loginPc, calls,
                   error, activeTab, loginData, regPc, alert, listVars,
                   taskVars>>

\* /^[^\s@]+@[^\s@]+\.[^\s@]+$/.test(email)
EmailShape(s) ==
    \E i, k \in 1..Len(s) :
        /\ 1 < i
        /\ i + 1 < k
        /\ k < Len(s)
        /\ s[i] = "@"
        /\ s[k] = "."
        /\ \A j \in 1..Len(s) : j # i => (~IsSpace(s[j]) /\ s[j] # "@")

\* A validation without the length check.
RegisterErrorNoLength(data) ==
    IF Blank(data.username) \/ Blank(data.email) \/ Blank(data.password)
    THEN "Please fill in all fields"
    ELSE IF ~EmailShape(data.email)
    THEN "Please enter a valid email address"
    ELSE IF data.password # data.password2
    THEN "Passwords do not match"
    ELSE ""

\* The client-side validation of handleRegister: the message of the first
\* check that fails, '' when all pass.
RegisterError(data) ==
    IF Blank(data.username) \/ Blank(data.email) \/ Blank(data.password)
    THEN "Please fill in all fields"
    ELSE IF ~EmailShape(data.email)
    THEN "Please enter a valid email address"
    ELSE IF Length(data.password) < MinPasswordLength
    THEN "Password must be at least 6 characters"
    ELSE IF data.password # data.password2
    THEN "Passwords do not match"
    ELSE ""

\* What the browser reports for the registration form.
RegisterViolation(data, edited) ==
    ConstraintViolation(RegisterControls, data, edited)

\* The submit button of the registration form is pressed.  The browser
\* reports the first input that fails a constraint and that is all; else
\* the submit event runs handleRegister up to the await of
\* axios.post('/auth/register/').
RegisterSubmit ==
    /\ ~isAuthenticated
    /\ activeTab = "register"
    /\ loginPc = "idle"
    /\ regPc = "idle"
    /\ reported' = RegisterViolation(registerData, userEdited)
    /\ IF reported' # NoViolation
       THEN UNCHANGED <<error, regPc>>
       ELSE IF RegisterError(registerData) # ""
       THEN /\ error' = RegisterError(registerData)
            /\ UNCHANGED regPc
       ELSE /\ error' = ""
            /\ regPc' = "pending"
    /\ UNCHANGED <<access, refresh, href, isAuthenticated, loginPc,
                   calls, activeTab, loginData, registerData, userEdited,
                   alert, listVars, taskVars>>

\* A registration that logs the new user in.
AfterRegisterLogsIn(s) == [s EXCEPT !.isAuthenticated = TRUE]

\* What handleRegister does to the session on success: nothing.
AfterRegister(s) == s

\* The account was created: the form is emptied and the login tab shown.
RegisterSucceeds ==
    /\ regPc = "pending"
    /\ registerData' = EmptyRegisterData
    /\ userEdited' =
            Rendered(activeTab, "login", userEdited, FormState, FormState)
    /\ activeTab' = "login"
    /\ regPc' = "idle"
    /\ alert' = "Registration successful! Please log in with your credentials."
    /\ access' = AfterRegister(Here).access
    /\ refresh' = AfterRegister(Here).refresh
    /\ isAuthenticated' = AfterRegister(Here).isAuthenticated
    /\ UNCHANGED <<href, loginPc, calls, error, loginData, reported,
                   listVars, taskVars>>

\* err.response.data of a rejected registration: the field messages.
RegisterFailures ==
    { [username |-> "A user with that username already exists.",
       email |-> "", password |-> ""],
      [username |-> "", email |-> "Enter a valid email address.",
       password |-> "This password is too common."],
      [username |-> "", email |-> "", password |-> "This password is too common."],
      [username |-> "", email |-> "", password |-> ""] }

\* The message the catch block of handleRegister sets.
RegisterErrorMessage(data) ==
    IF data.username # "" THEN data.username
    ELSE IF data.email # "" THEN data.email
    ELSE IF data.password # "" THEN data.password
    ELSE "Registration failed. Please try again."

\* The registration is rejected, or the request fails.
RegisterFails ==
    /\ regPc = "pending"
    /\ \E data \in RegisterFailures : error' = RegisterErrorMessage(data)
    /\ regPc' = "idle"
    /\ UNCHANGED <<access, refresh, href, isAuthenticated, loginPc,
                   calls, activeTab, loginData, registerData, userEdited,
                   reported, alert, listVars, taskVars>>

(***************************************************************************)
(* The back end behind the client                                          *)
(***************************************************************************)

\* The auth service issues both tokens of a pair to one user.
AuthLogin ==
    \E a \in AccessTokens : \E r \in RefreshTokens :
        /\ Identity(a) = Identity(r)
        /\ LoginSucceedsWith(TokenPair(a, r))

\* The auth service refreshes for the user the refresh token was issued to.
AuthRefreshes(c) ==
    \E a \in AccessTokens :
        /\ Identity(a) = Identity(calls[c].refreshSent)
        /\ RefreshSucceedsWith(c, a)

\* The task store answers a request that carries a token.
StoreAnswers(c) ==
    /\ calls[c].Authorization # NoHeader
    /\ RespondOk(c)

\* The task view after a login: TaskList has just been mounted, or its list
\* was fetched by an earlier request.
TaskInit ==
    /\ access = "A1"
    /\ refresh = "R1"
    /\ href = "app"
    /\ isAuthenticated = TRUE
    /\ loginPc = "idle"
    /\ calls = [c \in AllCalls |-> InitCall]
    /\ error = ""
    /\ activeTab = "login"
    /\ loginData = EmptyLoginData
    /\ registerData = EmptyRegisterData
    /\ userEdited = {}
    /\ reported = NoViolation
    /\ regPc = "idle"
    /\ alert = ""
    /\ \/ tasks = <<>> /\ listPc = "mounted"
       \/ tasks = TasksOf("alice", StoredTasks) /\ listPc = "ready"
    /\ fetching = NoCall
    /\ editingTask = NoTask
    /\ listError = None
    /\ formData = EmptyTaskForm
    /\ formError = ""
    /\ pending = {}

\* What handleChange puts into a field where the validation of TaskForm is
\* looked at: a blank title and one with a space in front.
TaskFormInputs ==
    [ title |-> { <<"\t", "U+00A0">>, <<" ", "a">> },
      description |-> { <<"c">> },
      status |-> { "done" } ]

\* The task view after a login of carol, who holds the pair A3, R3 of a
\* login before the ones looked at: TaskList has just been mounted.
TaskFormInit ==
    /\ access = "A3"
    /\ refresh = "R3"
    /\ href = "app"
    /\ isAuthenticated = TRUE
    /\ loginPc = "idle"
    /\ calls = [c \in AllCalls |-> InitCall]
    /\ error = ""
    /\ activeTab = "login"
    /\ loginData = EmptyLoginData
    /\ registerData = EmptyRegisterData
    /\ userEdited = {}
    /\ reported = NoViolation
    /\ regPc = "idle"
    /\ alert = ""
    /\ tasks = <<>>
    /\ listPc = "mounted"
    /\ fetching = NoCall
    /\ editingTask = NoTask
    /\ listError = None
    /\ formData = EmptyTaskForm
    /\ formError = ""
    /\ pending = {}

(***************************************************************************)
(* Specifications                                                          *)
(***************************************************************************)

\* The session client during one page lifetime: the list request of
\* TaskList and the status toggles of its items go through API.
Next ==
    \/ \E c \in Calls : FetchTasks(c)
    \/ \E c \in Calls : \E i \in 1..MaxTasks : ToggleStatus(i, c)
    \/ \E c \in Calls : RespondOk(c)
    \/ \E c \in Calls : RespondError(c)
    \/ \E c \in Calls : Timeout(c)
    \/ \E c \in Calls : RefreshSucceeds(c)
    \/ \E c \in Calls : RefreshFails(c)
    \/ LoginChange(Credentials)
    \/ LoginSubmit
    \/ LoginSucceeds
    \/ LoginFails
    \/ Logout

Spec == Init /\ [][Next]_vars

\* The timer of a request made through API always fires when the request is
\* still open; the server and the network owe no answer.
FairSpec == Spec /\ \A c \in Calls : WF_vars(Timeout(c))

\* The session client across the page loads it triggers itself.
AppNext ==
    \/ \E c \in Calls : FetchTasks(c)
    \/ \E c \in Calls : \E i \in 1..MaxTasks : ToggleStatus(i, c)
    \/ \E c \in Calls : RespondOk(c)
    \/ \E c \in Calls : RespondError(c)
    \/ \E c \in Calls : Timeout(c)
    \/ \E c \in Calls : RefreshSucceeds(c)
    \/ \E c \in Calls : RefreshFails(c)
    \/ LoginChange(Credentials)
    \/ LoginSubmit
    \/ LoginSucceeds
    \/ LoginFails
    \/ Logout
    \/ Reload

AppSpec == Init /\ [][AppNext]_vars

\* A navigation that was started completes, the effect of a TaskList that
\* was mounted runs, and the timers fire.
AppFairSpec ==
    /\ AppSpec
    /\ WF_vars(Reload)
    /\ WF_vars(\E c \in Calls : FetchTasks(c))
    /\ \A c \in Calls : WF_vars(Timeout(c))

\* Logging in: handleLogin of LoginForm, and authAPI.login through API.
ApiLoginNext ==
    \/ LoginChange(Credentials)
    \/ LoginSubmit
    \/ LoginSucceeds
    \/ LoginFails
    \/ Logout
    \/ Dispatch(LoginCall)
    \/ RespondOk(LoginCall)
    \/ RespondError(LoginCall)
    \/ Timeout(LoginCall)
    \/ RefreshSucceeds(LoginCall)
    \/ RefreshFails(LoginCall)

ApiLoginSpec == Init /\ [][ApiLoginNext]_vars

\* The LoginForm component.
FormNext ==
    \/ SwitchTab
    \/ LoginChange(LoginFieldTexts)
    \/ LoginSubmit
    \/ LoginSucceeds
    \/ LoginFails
    \/ RegisterChange
    \/ RegisterSubmit
    \/ RegisterSucceeds
    \/ RegisterFails

FormSpec == Init /\ [][FormNext]_vars

\* The client against a back end that keeps tokens and tasks per user.
StoreNext ==
    \/ LoginChange(Credentials)
    \/ LoginSubmit
    \/ AuthLogin
    \/ LoginFails
    \/ Logout
    \/ \E c \in Calls : FetchTasks(c)
    \/ \E c \in Calls : StoreAnswers(c)
    \/ \E c \in Calls : RespondError(c)
    \/ \E c \in Calls : Timeout(c)
    \/ \E c \in Calls : AuthRefreshes(c)
    \/ \E c \in Calls : RefreshFails(c)

StoreSpec == Init /\ [][StoreNext]_vars

\* The task view: TaskList with its TaskForm and TaskItems, its requests
\* through API, and the ways out of the view and back into it.
TaskNext ==
    \/ \E c \in Calls : FetchTasks(c)
    \/ FormChange(TaskFieldTexts)
    \/ \E c \in Calls : FormSubmit(c)
    \/ \E i \in 1..MaxTasks : EditStart(i)
    \/ EditCancel
    \/ \E c \in Calls : \E i \in 1..MaxTasks : ToggleStatus(i, c)
    \/ \E c \in Calls : \E i \in 1..MaxTasks : Delete(i, c)
    \/ \E c \in Calls : RespondOk(c)
    \/ \E c \in Calls : RespondError(c)
    \/ \E c \in Calls : Timeout(c)
    \/ \E c \in Calls : RefreshSucceeds(c)
    \/ \E c \in Calls : RefreshFails(c)
    \/ Logout
    \/ Reload
    \/ LoginChange(Credentials)
    \/ LoginSubmit
    \/ LoginSucceeds
    \/ LoginFails

TaskSpec == TaskInit /\ [][TaskNext]_vars

\* The task view of carol, whose task is within the limits of the store
\* and beyond the limits of the form.
TaskFormNext ==
    \/ \E c \in Calls : FetchTasks(c)
    \/ FormChange(TaskFormInputs)
    \/ \E c \in Calls : FormSubmit(c)
    \/ \E i \in 1..MaxTasks : EditStart(i)
    \/ EditCancel
    \/ \E c \in Calls : \E i \in 1..MaxTasks : ToggleStatus(i, c)
    \/ \E c \in Calls : \E i \in 1..MaxTasks : Delete(i, c)
    \/ \E c \in Calls : RespondOk(c)
    \/ \E c \in Calls : RespondError(c)
    \/ \E c \in Calls : Timeout(c)
    \/ \E c \in Calls : RefreshSucceeds(c)
    \/ \E c \in Calls : RefreshFails(c)
    \/ Logout
    \/ Reload

TaskFormSpec == TaskFormInit /\ [][TaskFormNext]_vars

TypeOK ==
    /\ access \in AccessTokens \cup {"A3", None}
    /\ refresh \in RefreshTokens \cup {"R3", None}
    /\ href \in {"app", "/"}
    /\ isAuthenticated \in BOOLEAN
    /\ loginPc \in {"idle", "pending"}
    /\ activeTab \in {"login", "register"}
    /\ userEdited \subseteq DOMAIN FieldTexts
    /\ reported.constraint \in {"", "valueMissing", "typeMismatch", "tooShort"}
    /\ regPc \in {"idle", "pending"}
    /\ listPc \in {"unmounted", "mounted", "loading", "ready"}
    /\ fetching \in Calls \cup {NoCall}
    /\ \A c \in AllCalls :
        /\ calls[c].pc \in
            {"idle", "sent", "refreshing", "replayed", "done"}
        /\ calls[c].retry \in BOOLEAN

(***************************************************************************)
(* Vocabulary of the properties                                            *)
(***************************************************************************)

\* What the caller holds when the request of a call was answered by r and
\* nothing intercepts the answer.
Outcome(r) == IF r = ApiOk THEN Resolved ELSE Rejected(r)

\* The header a dispatch has to carry for a Session whose access token is acc.
HeaderFor(acc) == IF acc = None THEN NoHeader ELSE Bearer(acc)

\* In this step the first dispatch of c is answered 401.
FirstUnauthorizedStep(c) ==
    /\ calls[c].pc = "sent"
    /\ calls'[c].firstResp.status = 401

\* In this step the refresh call of c is answered with a new access token.
RefreshSucceededStep(c) ==
    /\ calls[c].pc = "refreshing"
    /\ calls'[c].refreshResp = RefreshOk

\* In this step the refresh call of c fails.
RefreshFailedStep(c) ==
    /\ calls[c].pc = "refreshing"
    /\ calls'[c].refreshResp \in RefreshErrors

\* In this step a request of c goes out through API.
DispatchStep(c) == calls'[c].nDispatch > calls[c].nDispatch

\* The refresh flow of c ended in the logged-out state.
RefreshFailed(c) == calls[c].refreshResp \in RefreshErrors
NoTokenLogout(c) ==
    /\ calls[c].pc = "done"
    /\ calls[c].firstResp.status = 401
    /\ calls[c].nRefresh = 0
LoggedOutBy(c) == RefreshFailed(c) \/ NoTokenLogout(c)

(***************************************************************************)
(* C1                                                                      *)
(***************************************************************************)

\* C1: a call whose first answer is 401 and whose refresh succeeds is sent a
\* second time exactly once and ends with the outcome of that replay; no call
\* ever issues more than one refresh call or more than one replay, and a
\* replay answered 401 ends the call with that 401.
C1_ReplayedExactlyOnce ==
    \A c \in Calls :
        /\ calls[c].nRefresh <= 1
        /\ calls[c].nDispatch <= 2
        /\ calls[c].refreshResp = RefreshOk =>
                /\ calls[c].firstResp.status = 401
                /\ calls[c].nDispatch = 2
                /\ calls[c].pc \in {"replayed", "done"}
                /\ calls[c].pc = "done" =>
                        /\ calls[c].replayResp # NoResp
                        /\ calls[c].result = Outcome(calls[c].replayResp)
        /\ calls[c].replayResp.status = 401 =>
                /\ calls[c].pc = "done"
                /\ calls[c].nRefresh = 1
                /\ calls[c].nDispatch = 2
                /\ calls[c].result = Rejected(calls[c].replayResp)

\* A call whose replay was itself answered 401 has ended.
C1_Witness ==
    \E c \in Calls :
        /\ calls[c].refreshResp = RefreshOk
        /\ calls[c].replayResp.status = 401
        /\ calls[c].pc = "done"

(***************************************************************************)
(* C2                                                                      *)
(***************************************************************************)

\* C2: the refresh call carries the refresh token stored at that moment; when
\* it returns a new access token, the step that handles the answer leaves
\* that token in Session, leaves the refresh token as it was and sends the
\* replay with 'Bearer ' and the new token; the call then ends with the
\* outcome of the replay.
C2_RefreshStoresAndReplays ==
    [][\A c \in Calls :
        /\ (FirstUnauthorizedStep(c) /\ calls'[c].nRefresh > calls[c].nRefresh) =>
                calls'[c].refreshSent = refresh
        /\ RefreshSucceededStep(c) =>
                /\ calls'[c].refreshed \in AccessTokens
                /\ access' = calls'[c].refreshed
                /\ refresh' = refresh
                /\ DispatchStep(c)
                /\ calls'[c].pc = "replayed"
                /\ calls'[c].Authorization = Bearer(calls'[c].refreshed)
        /\ (calls[c].pc = "replayed" /\ calls'[c].pc = "done") =>
                calls'[c].result = Outcome(calls'[c].replayResp)
      ]_vars

\* Login gave A1/R1, the list call went out with A1 and got 401, the refresh
\* with R1 gave A2, the replay went out with A2 and succeeded.
C2_Witness ==
    \E c \in Calls :
        /\ calls[c].firstResp.status = 401
        /\ calls[c].refreshSent = "R1"
        /\ calls[c].refreshed = "A2"
        /\ calls[c].Authorization = Bearer("A2")
        /\ calls[c].replayResp = ApiOk
        /\ calls[c].result = Resolved
        /\ access = "A2"
        /\ refresh = "R1"

(***************************************************************************)
(* C3                                                                      *)
(***************************************************************************)

\* C3: the step that handles a failed refresh call leaves Session without
\* access token and without refresh token, sends nothing and ends the call;
\* a call whose refresh failed is never sent again.
C3_RefreshFailureClears ==
    [][\A c \in Calls :
        /\ RefreshFailedStep(c) =>
                /\ access' = None
                /\ refresh' = None
                /\ ~DispatchStep(c)
                /\ calls'[c].pc = "done"
        /\ RefreshFailed(c) =>
                /\ calls'[c].nDispatch = 1
                /\ calls'[c].replayResp = NoResp
      ]_vars

\* After a login, a refresh call made with R1 failed: both tokens are gone
\* while the task view is still shown.
C3_Witness ==
    \E c \in Calls :
        /\ RefreshFailed(c)
        /\ calls[c].pc = "done"
        /\ calls[c].refreshSent = "R1"
        /\ access = None
        /\ refresh = None
        /\ isAuthenticated

(***************************************************************************)
(* C4                                                                      *)
(***************************************************************************)

\* C4: when the first answer to a call is 401 and Session holds no refresh
\* token, that step clears Session, sets the location to "/", rejects the
\* call and issues no refresh call.
C4_NoRefreshTokenFailsClosed ==
    [][\A c \in Calls :
        (FirstUnauthorizedStep(c) /\ refresh = None) =>
            /\ access' = None
            /\ refresh' = None
            /\ href' = "/"
            /\ calls'[c].pc = "done"
            /\ calls'[c].result.kind = "rejected"
            /\ calls'[c].nRefresh = 0
            /\ calls'[c].refreshSent = None
            /\ calls'[c].nDispatch = 1
      ]_vars

\* A call sent with an access token finds the refresh token gone at its 401.
C4_Witness ==
    \E c \in Calls :
        /\ NoTokenLogout(c)
        /\ calls[c].Authorization # NoHeader
        /\ calls[c].result.kind = "rejected"
        /\ href = "/"

(***************************************************************************)
(* C5                                                                      *)
(***************************************************************************)

\* C5: whenever a request goes out through API, first dispatch or replay,
\* its Authorization header is 'Bearer ' and the access token Session holds
\* at that moment, and there is no such header when Session holds none; a
\* first dispatch leaves Session as it was, and a replay leaves it with what
\* the refresh stored.
C5_TokenAttached ==
    [][\A c \in Calls :
        DispatchStep(c) =>
            /\ calls'[c].Authorization = HeaderFor(access')
            /\ refresh' = refresh
            /\ calls[c].pc = "idle" => access' = access
            /\ calls[c].pc # "idle" => access' = calls'[c].refreshed
      ]_vars

\* One call went out with the token of the login and lost the session to a
\* failed refresh; the next call of the task view is out without a header.
C5_Witness ==
    \E c, d \in Calls :
        /\ calls[d].pc = "done"
        /\ calls[d].Authorization = Bearer("A1")
        /\ calls[d].nRefresh = 1
        /\ calls[c].pc = "sent"
        /\ calls[c].Authorization = NoHeader
        /\ access = None

(***************************************************************************)
(* C6                                                                      *)
(***************************************************************************)

\* C6 as stated: a caller holds a 401 failure only when the refresh of its
\* call failed, and never when the refresh succeeded.
C6_UnauthorizedOnlyAfterFailedRefresh ==
    \A c \in Calls :
        /\ calls[c].result.error.status = 401 => LoggedOutBy(c)
        /\ calls[c].refreshResp = RefreshOk => calls[c].result.error.status # 401

\* C6: a caller holds a 401 failure only when the refresh call of its call
\* was itself answered 401, or when the refresh succeeded and the one replay
\* was answered 401; the 401 of a first dispatch never reaches the caller.
C6_UnauthorizedOnlyFromRefreshOrReplay ==
    \A c \in Calls :
        calls[c].result.error.status = 401 =>
            /\ calls[c].pc = "done"
            /\ calls[c].firstResp.status = 401
            /\ \/ /\ RefreshFailed(c)
                  /\ calls[c].result.error = calls[c].refreshResp
               \/ /\ calls[c].refreshResp = RefreshOk
                  /\ calls[c].replayResp.status = 401
                  /\ calls[c].result.error = calls[c].replayResp

\* One caller holds the 401 of a replay, another the 401 of a refresh call.
C6_Witness ==
    \E c, d \in Calls :
        /\ calls[c].refreshResp = RefreshOk
        /\ calls[c].result.error.status = 401
        /\ RefreshFailed(d)
        /\ calls[d].result.error.status = 401

(***************************************************************************)
(* C7                                                                      *)
(***************************************************************************)

\* C7: whatever the other calls have done, a call whose first answer is 401
\* while Session holds a refresh token issues its own refresh call with that
\* token, a refresh that succeeds sends the replay of that call and of no
\* other, and no call issues a second refresh call or a second replay.
C7_RetryBudgetPerCall ==
    [][\A c \in Calls :
        /\ (FirstUnauthorizedStep(c) /\ refresh # None) =>
                /\ calls'[c].pc = "refreshing"
                /\ calls'[c].nRefresh = 1
                /\ calls'[c].refreshSent = refresh
        /\ RefreshSucceededStep(c) =>
                /\ calls'[c].nDispatch = 2
                /\ \A d \in Calls \ {c} : calls'[d] = calls[d]
        /\ calls'[c].nRefresh <= 1
        /\ calls'[c].nDispatch <= 2
      ]_vars

\* Two calls were answered 401 one after the other; each has issued its own
\* refresh call and been replayed, the first having ended before the second
\* got its 401.
C7_Witness ==
    \E c, d \in Calls :
        /\ c # d
        /\ calls[c].pc = "done"
        /\ calls[c].retry
        /\ calls[c].nRefresh = 1
        /\ calls[c].nDispatch = 2
        /\ calls[d].pc = "replayed"
        /\ calls[d].nRefresh = 1
        /\ calls[d].nDispatch = 2
        /\ calls[d].Authorization # calls[c].Authorization

(***************************************************************************)
(* C8                                                                      *)
(***************************************************************************)

\* C8 as stated: when the refresh flow of a call ends in the logged-out
\* state, its caller holds a rejection whose error is the error of the
\* request that was answered 401.
C8_RejectedWithOriginalError ==
    \A c \in Calls :
        (LoggedOutBy(c) /\ calls[c].pc = "done") =>
            calls[c].result = Rejected(calls[c].firstResp)

\* C8: when the refresh flow of a call ends in the logged-out state, its
\* caller holds a rejection whose error is the one the refresh flow raised:
\* the error of the failed refresh call, or 'No refresh token available'.
C8_RejectedWithRefreshError ==
    \A c \in Calls :
        /\ RefreshFailed(c) =>
                /\ calls[c].pc = "done"
                /\ calls[c].result = Rejected(calls[c].refreshResp)
        /\ NoTokenLogout(c) =>
                calls[c].result = Rejected(NoRefreshToken)

\* One call ended on a refresh call lost to the network, another on a missing
\* refresh token.
C8_Witness ==
    \E c, d \in Calls :
        /\ RefreshFailed(c)
        /\ calls[c].refreshResp.status = 0
        /\ calls[c].result.kind = "rejected"
        /\ NoTokenLogout(d)
        /\ calls[d].result.kind = "rejected"

(***************************************************************************)
(* C9                                                                      *)
(***************************************************************************)

\* In this step a request of c fails with something that is no first 401:
\* another status, no response at all, or the 401 of a replay.
OtherFailureStep(c) ==
    \/ /\ calls[c].pc = "sent"
       /\ calls'[c].firstResp # NoResp
       /\ calls'[c].firstResp.status \notin {200, 401}
    \/ /\ calls[c].pc = "replayed"
       /\ calls'[c].replayResp # NoResp
       /\ calls'[c].replayResp.status # 200

\* C9: the step in which a request fails with anything but a first 401
\* issues no refresh call and no replay, leaves Session and the location as
\* they were and ends the call rejected with that very error.
C9_OtherErrorsPassThrough ==
    [][\A c \in Calls :
        OtherFailureStep(c) =>
            /\ access' = access
            /\ refresh' = refresh
            /\ href' = href
            /\ calls'[c].nRefresh = calls[c].nRefresh
            /\ calls'[c].nDispatch = calls[c].nDispatch
            /\ calls'[c].pc = "done"
            /\ calls'[c].result =
                    Rejected(IF calls[c].pc = "sent"
                             THEN calls'[c].firstResp
                             ELSE calls'[c].replayResp)
      ]_vars

\* With both tokens in Session, one call ended on a 404 and another on a
\* timeout, neither having asked for a refresh.
C9_Witness ==
    \E c, d \in Calls :
        /\ calls[c].result = Rejected([req |-> "api", status |-> 404, code |-> "ERR_BAD_REQUEST"])
        /\ calls[d].result = Rejected(ApiTimeout)
        /\ calls[c].nRefresh = 0
        /\ calls[d].nRefresh = 0
        /\ access # None
        /\ refresh # None
        /\ href = "app"

(***************************************************************************)
(* C10                                                                     *)
(***************************************************************************)

\* C10: every call that was sent ends, so its caller receives a result, even
\* when the server never answers.
C10_EveryCallEnds ==
    \A c \in Calls : (calls[c].pc # "idle") ~> (calls[c].pc = "done")

\* The requests made through API are bounded: one that is out is answered or
\* timed out.
C10_ApiRequestsBounded ==
    \A c \in Calls :
        (calls[c].pc \in {"sent", "replayed"}) ~>
            (calls[c].pc \in {"refreshing", "done"})

(***************************************************************************)
(* Vocabulary of the session properties                                    *)
(***************************************************************************)

\* Session holds neither token.
SessionEmpty == access = None /\ refresh = None

\* In this step handleLogout of App runs.
LogoutStep == isAuthenticated /\ ~isAuthenticated' /\ href' = href

\* In this step handleLogin receives its token pair.
LoginSucceededStep ==
    loginPc = "pending" /\ loginPc' = "idle" /\ isAuthenticated'

\* In this step handleLogin receives a failure.
LoginFailedStep ==
    loginPc = "pending" /\ loginPc' = "idle" /\ ~isAuthenticated'

(***************************************************************************)
(* C11                                                                     *)
(***************************************************************************)

\* C11: from every state logout leaves Session without access token and
\* without refresh token and the login view shown; a second logout right
\* after the first leaves exactly that result again; and the Logout button
\* does to the state what handleLogout says.
C11_LogoutClearsAndIdempotent ==
    [][/\ LET once == handleLogout(Here)
              twice == handleLogout(once)
          IN /\ once.access = None
             /\ once.refresh = None
             /\ View(once) = "LoginForm"
             /\ twice = once
       /\ LogoutStep =>
            /\ Here' = handleLogout(Here)
            /\ SessionEmpty'
            /\ View(Here') = "LoginForm"
      ]_vars

\* Logged out after a login, with a call of the task view still out with the
\* token of that login.
C11_Witness ==
    /\ ~isAuthenticated
    /\ SessionEmpty
    /\ \E c \in Calls :
        /\ calls[c].pc = "sent"
        /\ calls[c].Authorization = Bearer("A1")

(***************************************************************************)
(* C13                                                                     *)
(***************************************************************************)

\* C13: the step in which handleLogin receives its token pair leaves an
\* access token and a refresh token in Session and raises isAuthenticated;
\* and isAuthenticated is never raised but by such a step, so never before
\* both tokens are stored.
C13_LoginStoresPairThenSignals ==
    [][(LoginSucceededStep \/ (~isAuthenticated /\ isAuthenticated')) =>
            /\ loginPc = "pending"
            /\ access' \in AccessTokens
            /\ refresh' \in RefreshTokens
            /\ isAuthenticated'
            /\ calls' = calls
      ]_vars

\* Right after a first login that returned the pair (A2, R1).
C13_Witness ==
    /\ isAuthenticated
    /\ access = "A2"
    /\ refresh = "R1"
    /\ loginPc = "idle"
    /\ \A c \in Calls : calls[c].pc = "idle"

(***************************************************************************)
(* C18                                                                     *)
(***************************************************************************)

\* C18: when a refresh answer stores its access token, the refresh token in
\* Session is the one the refresh call was made with, so the access token
\* never comes from another login than the refresh token next to it.
C18_RefreshFromSameLogin ==
    [][\A c \in Calls :
        (RefreshSucceededStep(c) /\ refresh # None) =>
            calls[c].refreshSent = refresh
      ]_vars

(***************************************************************************)
(* C19                                                                     *)
(***************************************************************************)

\* C19: an empty Session stays empty in every step but a successful login.
C19_EmptyUntilLogin ==
    [][(SessionEmpty /\ ~LoginSucceededStep) => SessionEmpty']_vars

(***************************************************************************)
(* C20                                                                     *)
(***************************************************************************)

\* C20: Session holds an access token only if it holds a refresh token.
C20_AccessOnlyWithRefresh == access # None => refresh # None

(***************************************************************************)
(* C12                                                                     *)
(***************************************************************************)

\* The refresh flow has cleared Session and started the navigation to '/'
\* while the task view is shown.  No login can succeed before the login view
\* is shown, for handleLogin belongs to the login view.
ForcedOut == href = "/" /\ isAuthenticated /\ SessionEmpty

\* C12: once the refresh flow has reached the logged-out state, the login
\* view is shown at some later moment; the task view is not kept or shown
\* again without a login.
C12_ForcedLogoutShowsLogin == ForcedOut ~> ~isAuthenticated

(***************************************************************************)
(* C14                                                                     *)
(***************************************************************************)

\* In this step the token request made with authAPI.login fails.
LoginCallFailedStep ==
    /\ calls[LoginCall].pc = "sent"
    /\ calls'[LoginCall].firstResp \in ApiErrors \cup {ApiTimeout}

\* C14: the step in which a token request fails ends the login: no refresh
\* call and no second token request follow, Session is as it was and
\* isAuthenticated is not raised, for handleLogin and for authAPI.login.
C14_FailedLoginNotRetried ==
    [][/\ LoginFailedStep =>
            /\ UNCHANGED <<access, refresh, isAuthenticated, calls>>
       /\ LoginCallFailedStep =>
            /\ calls'[LoginCall].pc = "done"
            /\ calls'[LoginCall].nRefresh = 0
            /\ calls'[LoginCall].nDispatch = 1
            /\ UNCHANGED <<access, refresh, isAuthenticated>>
      ]_vars

(***************************************************************************)
(* C15                                                                     *)
(***************************************************************************)

\* C15: every task the task view shows is owned by the user the access token
\* in Session was issued to.
C15_ListOwnedByTokenIdentity ==
    access # None =>
        \A i \in 1..Len(tasks) : tasks[i].owner = Identity(access)

(***************************************************************************)
(* C16                                                                     *)
(***************************************************************************)

\* The password of the registration form is shorter than the minimum.
ShortPassword == Length(registerData.password) < MinPasswordLength

\* The registration form is up and its submit button can be pressed.
RegisterFormUp ==
    ~isAuthenticated /\ activeTab = "register" /\ loginPc = "idle" /\ regPc = "idle"

\* In this step handleRegister sends the registration request.
RegisterSentStep == regPc = "idle" /\ regPc' = "pending"

\* In this step the submit button is pressed and the browser reports an
\* input instead of submitting the form.
RegisterBlockedStep ==
    RegisterFormUp /\ reported' # reported /\ reported' # NoViolation

\* In this step handleRegister rejects the form with a message.
RegisterRejectedStep ==
    /\ RegisterFormUp
    /\ regPc' = "idle"
    /\ error' # error
    /\ error' # ""

\* The 6-character minimum is what the step shows: the browser reports the
\* password as too short, or handleRegister sets its message.
MinimumShownStep ==
    \/ reported' = [field |-> "password", constraint |-> "tooShort"]
    \/ error' = "Password must be at least 6 characters"

\* C16 as stated, for a password that is there: pressing the submit button
\* with a password of 1 to 5 characters sends no request and shows the
\* 6-character minimum.
C16_ShortPasswordMinimumMessage ==
    [][(/\ ShortPassword
        /\ registerData.password # <<>>
        /\ RegisterBlockedStep \/ RegisterRejectedStep \/ RegisterSentStep) =>
            /\ ~RegisterSentStep
            /\ MinimumShownStep
      ]_vars

\* The first input of the registration form the browser finds fault with,
\* in the order of the page: an input left empty, an email that is no
\* address, a username or a password the user typed shorter than 3 or 6.
FirstInputAtFault ==
    LET Typed(name) == name \in userEdited
        Fault(name, constraint) == [field |-> name, constraint |-> constraint]
    IN IF registerData.username = <<>>
       THEN Fault("username", "valueMissing")
       ELSE IF Typed("username") /\ Length(registerData.username) < 3
       THEN Fault("username", "tooShort")
       ELSE IF registerData.email = <<>>
       THEN Fault("email", "valueMissing")
       ELSE IF ~ValidEmailAddress(registerData.email)
       THEN Fault("email", "typeMismatch")
       ELSE IF registerData.password = <<>>
       THEN Fault("password", "valueMissing")
       ELSE IF Typed("password") /\ Length(registerData.password) < 6
       THEN Fault("password", "tooShort")
       ELSE IF registerData.password2 = <<>>
       THEN Fault("password2", "valueMissing")
       ELSE IF Typed("password2") /\ Length(registerData.password2) < 6
       THEN Fault("password2", "tooShort")
       ELSE NoViolation

\* C16, amended: pressing the submit button with a password shorter than 6
\* characters sends no request, and what is shown is the first thing wrong
\* with the form.  The browser reports the first input at fault and
\* handleRegister is not run; for a typed password that is too short, with
\* username and email in order, that is the 6-character minimum.  When the
\* browser finds no fault, handleRegister shows 'Please fill in all fields'
\* for a blank username, email or password, 'Please enter a valid email
\* address' for an email of the wrong shape, and else 'Password must be at
\* least 6 characters'.
C16_ShortPasswordRejectedLocally ==
    [][(RegisterFormUp /\ ShortPassword) =>
            /\ ~RegisterSentStep
            /\ FirstInputAtFault # NoViolation \/ RegisterError(registerData) # ""
            /\ RegisterBlockedStep =>
                    /\ reported' = FirstInputAtFault
                    /\ UNCHANGED <<error, regPc, registerData, activeTab>>
            /\ RegisterRejectedStep =>
                    /\ FirstInputAtFault = NoViolation
                    /\ reported' = NoViolation
                    /\ error' =
                        IF \/ Blank(registerData.username)
                           \/ Blank(registerData.email)
                           \/ Blank(registerData.password)
                        THEN "Please fill in all fields"
                        ELSE IF ~EmailShape(registerData.email)
                        THEN "Please enter a valid email address"
                        ELSE "Password must be at least 6 characters"
      ]_vars

\* The form holds a complete registration whose password "abc" was typed,
\* and repeated in the confirmation; the submit button was pressed and the
\* browser has reported the password as too short.
C16_Witness ==
    /\ RegisterFormUp
    /\ registerData.username = <<"b", "o", "b">>
    /\ registerData.email = <<"b", "@", "x", ".", "i", "o">>
    /\ registerData.password = <<"a", "b", "c">>
    /\ registerData.password2 = <<"a", "b", "c">>
    /\ "password" \in userEdited
    /\ reported = [field |-> "password", constraint |-> "tooShort"]
    /\ error = ""

(***************************************************************************)
(* C17                                                                     *)
(***************************************************************************)

\* In this step handleRegister learns that the account was created.
RegisterSucceededStep ==
    /\ regPc = "pending"
    /\ regPc' = "idle"
    /\ error' = ""

\* C17: the step that handles a successful registration leaves Session and
\* isAuthenticated as they were, sends no token request, empties the form and
\* shows the login tab, with the login view still up.
C17_RegistrationDoesNotLogIn ==
    [][RegisterSucceededStep =>
            /\ UNCHANGED <<access, refresh, isAuthenticated, loginPc, calls>>
            /\ ~isAuthenticated'
            /\ activeTab' = "login"
            /\ registerData' = EmptyRegisterData
      ]_vars

\* A registration has succeeded: its alert was shown, the login tab is up
\* and nobody is logged in.
C17_Witness ==
    /\ alert = "Registration successful! Please log in with your credentials."
    /\ activeTab = "login"
    /\ registerData = EmptyRegisterData
    /\ ~isAuthenticated
    /\ SessionEmpty

(***************************************************************************)
(* Vocabulary of the task view properties                                  *)
(***************************************************************************)

\* The requests sent in this step, and the ones settled in it.
SentNow == pending' \ pending
SettledNow == pending \ pending'

\* The requests TaskForm's onSubmit leads to.
FromForm(r) == r.handler \in {"handleCreate", "handleUpdate"}

(***************************************************************************)
(* C21                                                                     *)
(***************************************************************************)

\* C21: every PUT request the task view has sent carries a title in its
\* body.
C21_ReplaceCarriesTitle ==
    \A r \in pending : r.method = "PUT" => "title" \in DOMAIN r.body

(***************************************************************************)
(* C22                                                                     *)
(***************************************************************************)

\* C22: the step that sends a create request puts the new task at the head
\* of the list, and when a create request is rejected the list still holds
\* that task.
C22_CreateShownAtOnce ==
    [][/\ \A r \in SentNow :
            r.handler = "handleCreate" =>
                /\ Len(tasks') = Len(tasks) + 1
                /\ tasks'[1].title = r.body.title
       /\ \A r \in SettledNow :
            (r.handler = "handleCreate" /\ Len(tasks') = Len(tasks)) =>
                \E i \in 1..Len(tasks') : tasks'[i].title = r.body.title
      ]_vars

(***************************************************************************)
(* C23                                                                     *)
(***************************************************************************)

\* C23: a submit leaves the fields of the form as they are, in edit mode and
\* in create mode; the fields are emptied in the step in which the create
\* request succeeds with the form in create mode.
C23_ClearedOnlyOnceCreated ==
    [][/\ \A r \in SentNow : FromForm(r) => formData' = formData
       /\ \A r \in SettledNow :
            (/\ r.handler = "handleCreate"
             /\ Len(tasks') = Len(tasks) + 1
             /\ editingTask = NoTask) => formData' = EmptyTaskForm
      ]_vars

(***************************************************************************)
(* C24                                                                     *)
(***************************************************************************)

\* C24: the task being edited is one of the tasks of the list.
C24_EditingTaskInList ==
    editingTask # NoTask => editingTask.id \in IdsOf(tasks)

(***************************************************************************)
(* C25                                                                     *)
(***************************************************************************)

\* What the claim asks of the submitted data, the lengths being the ones
\* of the strings.
Submittable(data) ==
    /\ ~Blank(data.title)
    /\ Length(data.title) <= TitleLimit
    /\ Length(data.description) <= DescriptionLimit

\* In this step the submit button of the task form is pressed and the
\* browser reports an input instead of submitting the form.
FormBlockedStep ==
    Mounted /\ reported' # reported /\ reported' # NoViolation

\* In this step handleSubmit rejects the form with a message.
FormRejectedStep == Mounted /\ formError' # formError /\ formError' # ""

\* In this step a request that comes from the form goes out.
FormSentStep == \E r \in SentNow : FromForm(r)

====
